---- MODULE Spec2Model ----
(***************************************************************************)
(* image-color-scheme: dominant-colour extraction (extract_colors) and     *)
(* palette generation (generate_palette).                                  *)
(*                                                                         *)
(* Real numbers of the palette rules are exact rationals <<num, den>>      *)
(* (den > 0, lowest terms).  The resize arithmetic of extract_colors is    *)
(* IEEE-754 binary64, modelled bit by bit (see the Float section).         *)
(***************************************************************************)
EXTENDS Integers, Naturals, Sequences, FiniteSets, TLC

(***************************************************************************)
(* Bounds of the model                                                     *)
(***************************************************************************)
MaxPaletteN == 6
MaxDim == 23
MaxSizeArg == 15
MaxPixels == 3
MaxNumColors == 3

(***************************************************************************)
(* Exact rational arithmetic                                               *)
(***************************************************************************)
Abs(x) == IF x < 0 THEN -x ELSE x

RECURSIVE GCD(_, _)
GCD(a, b) == IF b = 0 THEN a ELSE GCD(b, a % b)

Rat(n, d) ==
    LET g == GCD(Abs(n), Abs(d))
        sg == IF d < 0 THEN -1 ELSE 1
    IN  IF n = 0 THEN <<0, 1>> ELSE <<sg * (n \div g), sg * (d \div g)>>

RInt(n) == <<n, 1>>
RAdd(x, y) ==
    LET g == GCD(x[2], y[2])
    IN  Rat(x[1] * (y[2] \div g) + y[1] * (x[2] \div g), x[2] * (y[2] \div g))
RNeg(x) == <<-x[1], x[2]>>
RSub(x, y) == RAdd(x, RNeg(y))
RMul(x, y) ==
    LET a == Rat(x[1], y[2])
        b == Rat(y[1], x[2])
    IN  <<a[1] * b[1], a[2] * b[2]>>
RLess(x, y) == RSub(x, y)[1] < 0
RLeq(x, y) == RSub(x, y)[1] <= 0
RMin(x, y) == IF RLess(y, x) THEN y ELSE x
RMax(x, y) == IF RLess(x, y) THEN y ELSE x
\* floor of a rational (TLA+ \div rounds toward minus infinity)
RFloor(x) == x[1] \div x[2]
\* Python's int(x): truncation toward zero
int(x) == IF x[1] >= 0 THEN x[1] \div x[2] ELSE -((-x[1]) \div x[2])
\* Python's x % 1.0 for a float x: result in [0, 1)
RMod1(x) == RSub(x, RInt(RFloor(x)))

\* circular distance of two hues on the [0,1) wheel
HueDist(a, b) ==
    LET d == RMod1(RSub(a, b))
    IN  RMin(d, RSub(RInt(1), d))

(***************************************************************************)
(* Color (color_extractor.py)                                              *)
(***************************************************************************)
\* variant: channels rounded to the nearest integer instead of truncated
Color__init__Round(rgb) == [c \in 1..3 |-> RFloor(RAdd(rgb[c], Rat(1, 2)))]

\* Color.__init__: self.rgb = tuple(map(int, rgb)); rgb is a triple of reals
Color__init__(rgb) == [c \in 1..3 |-> int(rgb[c])]

Max3(t) == IF t[1] >= t[2] /\ t[1] >= t[3] THEN t[1]
           ELSE IF t[2] >= t[3] THEN t[2] ELSE t[3]
Min3(t) == IF t[1] <= t[2] /\ t[1] <= t[3] THEN t[1]
           ELSE IF t[2] <= t[3] THEN t[2] ELSE t[3]

\* Color.hsv: colorsys.rgb_to_hsv(*self.rgb_normalized), channels c/255
Color_hsv(rgb) ==
    LET maxc == Max3(rgb)
        minc == Min3(rgb)
        rangec == maxc - minc
        v == Rat(maxc, 255)
        r == rgb[1]
        g == rgb[2]
        b == rgb[3]
        h6 == IF r = maxc THEN Rat(g - b, rangec)
              ELSE IF g = maxc THEN RAdd(RInt(2), Rat(b - r, rangec))
              ELSE RAdd(RInt(4), Rat(r - g, rangec))
    IN  IF minc = maxc THEN <<RInt(0), RInt(0), v>>
        ELSE <<RMod1(RMul(h6, Rat(1, 6))), Rat(rangec, maxc), v>>

\* colorsys.hsv_to_rgb(h, s, v)
hsv_to_rgb(h, s, v) ==
    LET h6 == RMul(h, RInt(6))
        i0 == int(h6)
        f == RSub(h6, RInt(i0))
        p == RMul(v, RSub(RInt(1), s))
        q == RMul(v, RSub(RInt(1), RMul(s, f)))
        t == RMul(v, RSub(RInt(1), RMul(s, RSub(RInt(1), f))))
        i == i0 % 6
    IN  IF s[1] = 0 THEN <<v, v, v>>
        ELSE CASE i = 0 -> <<v, t, p>>
               [] i = 1 -> <<q, v, p>>
               [] i = 2 -> <<p, v, t>>
               [] i = 3 -> <<p, q, v>>
               [] i = 4 -> <<t, p, v>>
               [] i = 5 -> <<v, p, q>>

\* variant: channels scaled by 256 instead of 255
ToColor_Scale256(h, s, v) ==
    LET rgb == hsv_to_rgb(h, s, v)
        rgb_255 == [c \in 1..3 |-> int(RMul(rgb[c], RInt(256)))]
    IN  Color__init__([c \in 1..3 |-> RInt(rgb_255[c])])

\* rgb_255 = tuple(int(c * 255) for c in rgb); Color(rgb_255)
ToColor(h, s, v) ==
    LET rgb == hsv_to_rgb(h, s, v)
        rgb_255 == [c \in 1..3 |-> int(RMul(rgb[c], RInt(255)))]
    IN  Color__init__([c \in 1..3 |-> RInt(rgb_255[c])])

Clamp(lo, hi, x) == RMax(lo, RMin(hi, x))

\* one palette entry: the loop's locals and the Color appended
Entry(h, s, v) == [new_h |-> h, new_s |-> s, new_v |-> v, rgb |-> ToColor(h, s, v)]

(***************************************************************************)
(* palette_generator.py                                                    *)
(***************************************************************************)
PaletteType == {"MONOCHROMATIC", "ANALOGOUS", "COMPLEMENTARY", "TRIADIC", "TETRADIC"}

_generate_monochromatic(base_color, num_colors) ==
    LET hsv == Color_hsv(base_color)
        h == hsv[1]
        s == hsv[2]
        v == hsv[3]
    IN  [k \in 1..num_colors |->
            LET i == k - 1
                fac == RAdd(Rat(1, 2), Rat(i, num_colors))
            IN  Entry(h,
                      Clamp(Rat(1, 10), RInt(1), RMul(s, fac)),
                      Clamp(Rat(2, 10), RInt(1), RMul(v, fac)))]

\* variant: the shift is centred on (num_colors - 1) // 2
_generate_analogous_Centre(base_color, num_colors) ==
    LET hsv == Color_hsv(base_color)
        h == hsv[1]
        s == hsv[2]
        v == hsv[3]
        hue_shift == Rat(5, 100)
    IN  [k \in 1..num_colors |->
            LET i == k - 1
                shift == RMul(RInt(i - ((num_colors - 1) \div 2)), hue_shift)
            IN  Entry(RMod1(RAdd(h, shift)), s, v)]

_generate_analogous(base_color, num_colors) ==
    LET hsv == Color_hsv(base_color)
        h == hsv[1]
        s == hsv[2]
        v == hsv[3]
        hue_shift == Rat(5, 100)
    IN  [k \in 1..num_colors |->
            LET i == k - 1
                shift == RMul(RInt(i - (num_colors \div 2)), hue_shift)
            IN  Entry(RMod1(RAdd(h, shift)), s, v)]

\* variant: the complementary half restarts its shift one step late
_generate_complementary_Late(base_color, num_colors) ==
    LET hsv == Color_hsv(base_color)
        h == hsv[1]
        s == hsv[2]
        v == hsv[3]
        comp_h == RMod1(RAdd(h, Rat(1, 2)))
        half == num_colors \div 2
    IN  [k \in 1..num_colors |->
            LET i == k - 1
                j == IF i < half THEN i ELSE i - half
                jh == IF i < half THEN i ELSE i - half + 1
                frac == Rat(j, num_colors * 2)
                hb == IF i < half THEN h ELSE comp_h
            IN  Entry(RMod1(RAdd(hb, RMul(RInt(jh), Rat(2, 100)))),
                      Clamp(Rat(2, 10), RInt(1), RMul(s, RAdd(Rat(7, 10), frac))),
                      Clamp(Rat(3, 10), RInt(1), RMul(v, RAdd(Rat(8, 10), frac))))]

_generate_complementary(base_color, num_colors) ==
    LET hsv == Color_hsv(base_color)
        h == hsv[1]
        s == hsv[2]
        v == hsv[3]
        comp_h == RMod1(RAdd(h, Rat(1, 2)))
        half == num_colors \div 2
    IN  [k \in 1..num_colors |->
            LET i == k - 1
                j == IF i < half THEN i ELSE i - half
                frac == Rat(j, num_colors * 2)
                hb == IF i < half THEN h ELSE comp_h
            IN  Entry(RMod1(RAdd(hb, RMul(RInt(j), Rat(2, 100)))),
                      Clamp(Rat(2, 10), RInt(1), RMul(s, RAdd(Rat(7, 10), frac))),
                      Clamp(Rat(3, 10), RInt(1), RMul(v, RAdd(Rat(8, 10), frac))))]

\* variant: the second and third hue are swapped
_generate_triadic_Swapped(base_color, num_colors) ==
    LET hsv == Color_hsv(base_color)
        h == hsv[1]
        s == hsv[2]
        v == hsv[3]
        h1 == h
        h2 == RMod1(RAdd(h, Rat(1, 3)))
        h3 == RMod1(RAdd(h, Rat(2, 3)))
    IN  [k \in 1..num_colors |->
            LET i == k - 1
                new_h == IF i % 3 = 0 THEN h1 ELSE IF i % 3 = 1 THEN h3 ELSE h2
                idx == i \div 3
            IN  Entry(new_h,
                      Clamp(Rat(3, 10), RInt(1), RMul(s, RAdd(Rat(8, 10), RMul(RInt(idx), Rat(1, 10))))),
                      Clamp(Rat(4, 10), RInt(1), RMul(v, RAdd(Rat(9, 10), RMul(RInt(idx), Rat(5, 100))))))]

_generate_triadic(base_color, num_colors) ==
    LET hsv == Color_hsv(base_color)
        h == hsv[1]
        s == hsv[2]
        v == hsv[3]
        h1 == h
        h2 == RMod1(RAdd(h, Rat(1, 3)))
        h3 == RMod1(RAdd(h, Rat(2, 3)))
    IN  [k \in 1..num_colors |->
            LET i == k - 1
                new_h == IF i % 3 = 0 THEN h1 ELSE IF i % 3 = 1 THEN h2 ELSE h3
                idx == i \div 3
            IN  Entry(new_h,
                      Clamp(Rat(3, 10), RInt(1), RMul(s, RAdd(Rat(8, 10), RMul(RInt(idx), Rat(1, 10))))),
                      Clamp(Rat(4, 10), RInt(1), RMul(v, RAdd(Rat(9, 10), RMul(RInt(idx), Rat(5, 100))))))]

_generate_tetradic(base_color, num_colors) ==
    LET hsv == Color_hsv(base_color)
        h == hsv[1]
        s == hsv[2]
        v == hsv[3]
        h1 == h
        h2 == RMod1(RAdd(h, Rat(1, 4)))
        h3 == RMod1(RAdd(h, Rat(1, 2)))
        h4 == RMod1(RAdd(h, Rat(3, 4)))
    IN  [k \in 1..num_colors |->
            LET i == k - 1
                new_h == IF i % 4 = 0 THEN h1 ELSE IF i % 4 = 1 THEN h2
                         ELSE IF i % 4 = 2 THEN h3 ELSE h4
                idx == i \div 4
            IN  Entry(new_h,
                      Clamp(Rat(3, 10), RInt(1), RMul(s, RAdd(Rat(8, 10), RMul(RInt(idx), Rat(1, 10))))),
                      Clamp(Rat(4, 10), RInt(1), RMul(v, RAdd(Rat(9, 10), RMul(RInt(idx), Rat(5, 100))))))]

\* variant: an unknown selector falls back to the monochromatic rule
generate_palette_Default(colors, palette_type, num_colors) ==
    IF colors = <<>> THEN [err |-> "ValueError", out |-> <<>>]
    ELSE LET base_color == colors[1]
         IN  CASE palette_type = "ANALOGOUS" ->
                    [err |-> "none", out |-> _generate_analogous(base_color, num_colors)]
               [] palette_type = "COMPLEMENTARY" ->
                    [err |-> "none", out |-> _generate_complementary(base_color, num_colors)]
               [] palette_type = "TRIADIC" ->
                    [err |-> "none", out |-> _generate_triadic(base_color, num_colors)]
               [] palette_type = "TETRADIC" ->
                    [err |-> "none", out |-> _generate_tetradic(base_color, num_colors)]
               [] OTHER ->
                    [err |-> "none", out |-> _generate_monochromatic(base_color, num_colors)]

\* generate_palette: [err, out]; out is the list of entries of the returned palette
generate_palette(colors, palette_type, num_colors) ==
    IF colors = <<>> THEN [err |-> "ValueError", out |-> <<>>]
    ELSE LET base_color == colors[1]
         IN  CASE palette_type = "MONOCHROMATIC" ->
                    [err |-> "none", out |-> _generate_monochromatic(base_color, num_colors)]
               [] palette_type = "ANALOGOUS" ->
                    [err |-> "none", out |-> _generate_analogous(base_color, num_colors)]
               [] palette_type = "COMPLEMENTARY" ->
                    [err |-> "none", out |-> _generate_complementary(base_color, num_colors)]
               [] palette_type = "TRIADIC" ->
                    [err |-> "none", out |-> _generate_triadic(base_color, num_colors)]
               [] palette_type = "TETRADIC" ->
                    [err |-> "none", out |-> _generate_tetradic(base_color, num_colors)]
               [] OTHER -> [err |-> "ValueError", out |-> <<>>]

(***************************************************************************)
(* Float: IEEE-754 binary64 arithmetic of the resize computation           *)
(* (positive, normal values only).  A float is [m, e]: m is the 53-bit     *)
(* significand, most significant bit first, and the value is m * 2^e.      *)
(***************************************************************************)
Precision == 53

RECURSIVE Bits(_)
\* binary digits of a natural number, most significant first
Bits(n) == IF n = 0 THEN <<>> ELSE Append(Bits(n \div 2), n % 2)

RECURSIVE FromBits(_)
FromBits(s) == IF s = <<>> THEN 0
               ELSE 2 * FromBits(SubSeq(s, 1, Len(s) - 1)) + s[Len(s)]

RECURSIVE LeadingZeros(_, _)
\* number of zero bits of rem/b right after the binary point (0 < rem < b)
LeadingZeros(rem, b) == IF 2 * rem >= b THEN 0 ELSE 1 + LeadingZeros(2 * rem, b)

RECURSIVE Pow2(_)
Pow2(k) == IF k = 0 THEN 1 ELSE 2 * Pow2(k - 1)

RECURSIVE FracBits(_, _, _, _)
\* the next n bits of rem/b after the binary point: <<bits, remainder>>
FracBits(rem, b, n, acc) ==
    IF n = 0 THEN <<acc, rem>>
    ELSE IF 2 * rem >= b THEN FracBits(2 * rem - b, b, n - 1, Append(acc, 1))
         ELSE FracBits(2 * rem, b, n - 1, Append(acc, 0))

RECURSIVE Increment(_)
\* bits + 1 (same length; all ones wraps to <<1, 0, ..., 0>> of length + 1)
Increment(s) ==
    IF s = <<>> THEN <<1>>
    ELSE IF s[Len(s)] = 0 THEN Append(SubSeq(s, 1, Len(s) - 1), 1)
         ELSE Append(Increment(SubSeq(s, 1, Len(s) - 1)), 0)

\* round to nearest, ties to even: s holds at least Precision bits, the
\* value is s * 2^e, sticky says whether non-zero bits follow s
RoundNearestEven(s, e, sticky) ==
    LET extra == Len(s) - Precision
        top == SubSeq(s, 1, Precision)
        guard == IF extra > 0 THEN s[Precision + 1] ELSE 0
        rest == \/ sticky
                \/ \E k \in (Precision + 2)..Len(s) : s[k] = 1
        up == guard = 1 /\ (rest \/ top[Precision] = 1)
        inc == Increment(top)
    IN  IF ~up THEN [m |-> top, e |-> e + extra]
        ELSE IF Len(inc) = Precision THEN [m |-> inc, e |-> e + extra]
             ELSE [m |-> SubSeq(inc, 1, Precision), e |-> e + extra + 1]

\* a / b for Python ints a, b >= 1: the correctly rounded quotient
fdiv(a, b) ==
    LET q0 == a \div b
        r0 == a % b
        ib == Bits(q0)
        z == IF q0 = 0 THEN LeadingZeros(r0, b) ELSE 0
        r1 == IF q0 = 0 THEN r0 * Pow2(z) ELSE r0
        n == Precision + 1 - Len(ib)
        fb == FracBits(r1, b, n, <<>>)
    IN  RoundNearestEven(ib \o fb[1], -(z + n), fb[2] # 0)

RECURSIVE MulSmall(_, _, _, _)
\* bits * k for a small natural k: c is the carry into the lowest bit of s,
\* acc the product's bits below it
MulSmall(s, k, c, acc) ==
    IF s = <<>> THEN Bits(c) \o acc
    ELSE LET d == s[Len(s)] * k + c
         IN  IF d % 2 = 0
             THEN MulSmall(SubSeq(s, 1, Len(s) - 1), k, d \div 2, <<0>> \o acc)
             ELSE MulSmall(SubSeq(s, 1, Len(s) - 1), k, d \div 2, <<1>> \o acc)

\* k * x for a Python int k >= 1 and a float x: the correctly rounded product
fmul(k, x) == RoundNearestEven(MulSmall(x.m, k, 0, <<>>), x.e, FALSE)

\* int(x) for a float x >= 0: truncation
int_float(x) ==
    IF x.e >= 0 THEN FromBits(x.m) * Pow2(x.e)
    ELSE IF Precision + x.e <= 0 THEN 0
         ELSE FromBits(SubSeq(x.m, 1, Precision + x.e))

(***************************************************************************)
(* extract_colors: the size passed to img.resize                           *)
(***************************************************************************)
ResizedSize(width, height, max_size, resize) ==
    IF resize /\ (width > max_size \/ height > max_size)
    THEN IF width > height
         THEN <<max_size, int_float(fmul(height, fdiv(max_size, width)))>>
         ELSE <<int_float(fmul(width, fdiv(max_size, height))), max_size>>
    ELSE <<width, height>>

(***************************************************************************)
(* State                                                                   *)
(***************************************************************************)
VARIABLES
    pc,          \* position of the call being modelled
    gp_colors,   \* generate_palette: argument colors (list of Color.rgb)
    gp_type,     \* generate_palette: argument palette_type
    gp_num,      \* generate_palette: argument num_colors
    gp_out,      \* generate_palette: entries of the returned palette
    gp_err,      \* generate_palette: exception raised ("none" if it returned)
    img_size,    \* extract_colors: <<width, height>> of the opened image
    max_size,    \* extract_colors: argument max_size
    resize,      \* extract_colors: argument resize
    new_size,    \* extract_colors: <<width, height>> of the image that is flattened
    sklearn,     \* environment: state of the clustering library
    pixels,      \* extract_colors: the flattened pixel array (uint8 triples)
    num_colors,  \* extract_colors: argument num_colors
    labels,      \* kmeans.labels_: cluster index of every pixel
    sampled,     \* fallback: the remaining sample
    colors,      \* cluster centres / chosen colours, triples of reals
    iters,       \* fallback: iterations of the selection loop started
    path,        \* which algorithm produced colors
    err,         \* extract_colors: exception raised ("none" if none)
    result       \* extract_colors: returned list of Color.rgb

gpVars == <<gp_colors, gp_type, gp_num, gp_out, gp_err>>
rsVars == <<img_size, max_size, resize, new_size>>
exVars == <<sklearn, pixels, num_colors, labels, sampled, colors, iters, path, err, result>>
vars == <<pc, gpVars, rsVars, exVars>>

\* channel values of the base colours tried
Channels == {0, 51, 128, 255}
BaseColors == {<<r, g, b>> : r \in Channels, g \in Channels, b \in Channels}
OtherColors == {<<12, 200, 77>>}
ColorLists == {<<>>} \cup {<<c>> : c \in BaseColors}
                \cup {<<c, d>> : c \in BaseColors, d \in OtherColors}
Selectors == PaletteType \cup {"bogus_type"}

Init ==
    /\ pc = "idle"
    /\ gp_colors = <<>>
    /\ gp_type = "none"
    /\ gp_num = 0
    /\ gp_out = <<>>
    /\ gp_err = "none"
    /\ img_size = <<1, 1>>
    /\ max_size = 200
    /\ resize = TRUE
    /\ new_size = <<1, 1>>
    /\ sklearn \in {"installed", "missing", "broken"}
    /\ pixels = <<>>
    /\ num_colors = 0
    /\ labels = <<>>
    /\ sampled = <<>>
    /\ colors = <<>>
    /\ iters = 0
    /\ path = "none"
    /\ err = "none"
    /\ result = <<>>

\* one call generate_palette(colors, palette_type, num_colors)
GeneratePalette ==
    /\ pc = "idle"
    /\ \E cs \in ColorLists, pt \in Selectors, n \in (-1)..MaxPaletteN :
          LET r == generate_palette(cs, pt, n)
          IN  /\ gp_colors' = cs
              /\ gp_type' = pt
              /\ gp_num' = n
              /\ gp_out' = r.out
              /\ gp_err' = r.err
    /\ pc' = "gp_done"
    /\ UNCHANGED <<rsVars, exVars>>

NextPalette == GeneratePalette
SpecPalette == Init /\ [][NextPalette]_vars

PaletteReturned == pc = "gp_done" /\ gp_err = "none"
BaseHue == Color_hsv(gp_colors[1])[1]

\* C1: for non-empty colors, each of the five palette types and n >= 0,
\* generate_palette returns exactly n colours with channels in 0..255
C1_PaletteLengthAndRange ==
    (pc = "gp_done" /\ gp_colors # <<>> /\ gp_type \in PaletteType /\ gp_num >= 0) =>
        /\ gp_err = "none"
        /\ Len(gp_out) = gp_num
        /\ \A k \in 1..Len(gp_out) : \A c \in 1..3 : gp_out[k].rgb[c] \in 0..255

C1_Witness ==
    /\ PaletteReturned
    /\ gp_type = "ANALOGOUS"
    /\ gp_num = MaxPaletteN
    /\ Len(gp_out) = MaxPaletteN
    /\ \E k \in 1..Len(gp_out) : \E c \in 1..3 : gp_out[k].rgb[c] = 255

\* C2: generate_palette returns a palette exactly when colors is non-empty
\* and palette_type is one of the five variants; otherwise it raises
\* ValueError and returns nothing
C2_PaletteIffValid ==
    pc = "gp_done" =>
        /\ (gp_err = "none") <=> (gp_colors # <<>> /\ gp_type \in PaletteType)
        /\ gp_err # "none" => (gp_err = "ValueError" /\ gp_out = <<>>)

C2_Witness ==
    /\ pc = "gp_done"
    /\ gp_colors # <<>>
    /\ gp_type = "bogus_type"
    /\ gp_num > 0
    /\ gp_err = "ValueError"

\* C4 as claimed: complementary, n = 6: the hues of indices 3, 4, 5 are
\* within 0.02 of (base_hue + 0.5) mod 1
C4_ComplementWithin002 ==
    (PaletteReturned /\ gp_type = "COMPLEMENTARY" /\ gp_num = 6) =>
        \A i \in 3..5 :
            RLeq(HueDist(gp_out[i + 1].new_h, RMod1(RAdd(BaseHue, Rat(1, 2)))), Rat(2, 100))

\* C4 amended: complementary, n = 6: the hue of index i in 3..5 lies at
\* circular distance 0.02 * (i - 3) from (base_hue + 0.5) mod 1, ahead of
\* it: within 0.02 for indices 3 and 4, and 0.04 for index 5
C4_ComplementStep ==
    (PaletteReturned /\ gp_type = "COMPLEMENTARY" /\ gp_num = 6) =>
        \A i \in 3..5 :
            LET comp == RMod1(RAdd(BaseHue, Rat(1, 2)))
            IN  /\ HueDist(gp_out[i + 1].new_h, comp) = Rat(2 * (i - 3), 100)
                /\ RMod1(RSub(gp_out[i + 1].new_h, comp)) = Rat(2 * (i - 3), 100)

C4_Witness ==
    /\ PaletteReturned
    /\ gp_type = "COMPLEMENTARY"
    /\ gp_num = 6
    /\ BaseHue = Rat(1, 2)
    /\ gp_out[6].new_h = Rat(4, 100)

\* C5: triadic: the hue of index i is (h + (i mod 3)/3) mod 1; for h = 0
\* and n = 6 the hues are 0, 1/3, 2/3, 0, 1/3, 2/3
C5_TriadicHues ==
    (PaletteReturned /\ gp_type = "TRIADIC") =>
        /\ \A i \in 0..(gp_num - 1) :
              gp_out[i + 1].new_h = RMod1(RAdd(BaseHue, Rat(i % 3, 3)))
        /\ (BaseHue = RInt(0) /\ gp_num = 6) =>
              [k \in 1..6 |-> gp_out[k].new_h]
                 = <<RInt(0), Rat(1, 3), Rat(2, 3), RInt(0), Rat(1, 3), Rat(2, 3)>>

C5_Witness ==
    /\ PaletteReturned
    /\ gp_type = "TRIADIC"
    /\ gp_num = 6
    /\ gp_colors[1] = <<255, 0, 0>>
    /\ gp_out[5].new_h = Rat(1, 3)
    /\ gp_out[6].new_h = Rat(2, 3)

\* C7 as claimed: for each of the five rules and n >= 1, index 0 has the
\* base hue
C7_IndexZeroBaseHue ==
    (PaletteReturned /\ gp_num >= 1) => gp_out[1].new_h = BaseHue

\* C7 amended: index 0 has the base hue for Monochromatic, Triadic and
\* Tetradic (n >= 1), for Complementary with n >= 2 and for Analogous with
\* n = 1; Analogous has the base hue at index n // 2 and
\* (h - (n // 2) * 0.05) mod 1 at index 0; Complementary with n = 1 has
\* (h + 0.5) mod 1 at index 0
C7_BaseHueIndex ==
    (PaletteReturned /\ gp_num >= 1) =>
        CASE gp_type = "ANALOGOUS" ->
                /\ gp_out[(gp_num \div 2) + 1].new_h = BaseHue
                /\ gp_out[1].new_h = RMod1(RSub(BaseHue, Rat(5 * (gp_num \div 2), 100)))
          [] gp_type = "COMPLEMENTARY" /\ gp_num = 1 ->
                gp_out[1].new_h = RMod1(RAdd(BaseHue, Rat(1, 2)))
          [] OTHER -> gp_out[1].new_h = BaseHue

C7_Witness ==
    /\ PaletteReturned
    /\ gp_type = "ANALOGOUS"
    /\ gp_num = 4
    /\ gp_out[1].new_h # BaseHue
    /\ gp_out[3].new_h = BaseHue

(***************************************************************************)
(* Resize step of extract_colors                                           *)
(***************************************************************************)
Dims == (1..MaxDim) \cup {161, 322, 500, 1000}
MaxSizes == (1..MaxSizeArg) \cup {200}

\* lines 71-80 of extract_colors on an image of the given size
Resize ==
    /\ pc = "idle"
    /\ \E width \in Dims, height \in Dims, ms \in MaxSizes, rs \in BOOLEAN :
          /\ img_size' = <<width, height>>
          /\ max_size' = ms
          /\ resize' = rs
          /\ new_size' = ResizedSize(width, height, ms, rs)
    /\ pc' = "resized"
    /\ UNCHANGED <<gpVars, exVars>>

NextResize == Resize
SpecResize == Init /\ [][NextResize]_vars

\* C6: a resized image has its larger dimension equal to max_size and the
\* other equal to floor(other * max_size / larger); otherwise the size is
\* unchanged
C6_ResizeDims ==
    pc = "resized" =>
        LET w == img_size[1]
            h == img_size[2]
        IN  IF resize /\ (w > max_size \/ h > max_size)
            THEN IF w > h THEN new_size = <<max_size, (h * max_size) \div w>>
                 ELSE IF h > w THEN new_size = <<(w * max_size) \div h, max_size>>
                 ELSE new_size = <<max_size, max_size>>
            ELSE new_size = img_size

(***************************************************************************)
(* extract_colors: clustering                                              *)
(***************************************************************************)
SampleSize == 1000
SimilarThreshold == 100

PixelValues == {<<0, 0, 0>>, <<1, 1, 1>>, <<16, 10, 0>>, <<255, 128, 127>>}
PixelArrays == UNION {[1..n -> PixelValues] : n \in 1..MaxPixels}

RECURSIVE SumSeq(_)
SumSeq(s) == IF s = <<>> THEN 0 ELSE s[1] + SumSeq(Tail(s))

Min2(a, b) == IF a < b THEN a ELSE b

\* numpy uint8 arithmetic: (a - b) ** 2 on uint8 arrays wraps modulo 256
SqDiffU8(a, b) == (((a - b) % 256) * ((a - b) % 256)) % 256
\* np.sum((p - q) ** 2) over the three channels (accumulated in 64 bits)
SqDist(p, q) == SqDiffU8(p[1], q[1]) + SqDiffU8(p[2], q[2]) + SqDiffU8(p[3], q[3])

\* avg_distances[i] = sum over j of distances[i][j]
AvgDistances(sample) ==
    [i \in 1..Len(sample) |-> SumSeq([j \in 1..Len(sample) |-> SqDist(sample[i], sample[j])])]

\* np.argmin: the first index of the minimum
ArgMin(d) == CHOOSE i \in 1..Len(d) :
                /\ \A j \in 1..Len(d) : d[i] <= d[j]
                /\ \A j \in 1..(i - 1) : d[j] > d[i]

RECURSIVE Filter(_, _)
\* sample[mask]
Filter(sample, mask) ==
    IF sample = <<>> THEN <<>>
    ELSE IF mask[1] THEN <<sample[1]>> \o Filter(Tail(sample), Tail(mask))
         ELSE Filter(Tail(sample), Tail(mask))

\* variant: the comparison is inverted, similar pixels are kept
SimilarMask_Inverted(sample, closest_idx) ==
    [i \in 1..Len(sample) |-> SqDist(sample[i], sample[closest_idx]) <= SimilarThreshold]

\* mask = np.sum((sampled - sampled[closest_idx]) ** 2, axis=1) > 100
SimilarMask(sample, closest_idx) ==
    [i \in 1..Len(sample) |-> SqDist(sample[i], sample[closest_idx]) > SimilarThreshold]

\* component-wise mean of the pixels of cluster k
Centroid(px, lab, k) ==
    LET members == {i \in 1..Len(px) : lab[i] = k}
        total(c) == SumSeq([i \in 1..Len(px) |-> IF lab[i] = k THEN px[i][c] ELSE 0])
    IN  [c \in 1..3 |-> Rat(total(c), Cardinality(members))]

\* labelings KMeans(n_clusters = n).fit(px) can end with: n non-empty clusters
Labelings(px, n) ==
    {lab \in [1..Len(px) -> 1..n] : \A k \in 1..n : \E i \in 1..Len(px) : lab[i] = k}

\* np.random.choice(n, size, replace=False): distinct indices in random order
Choices(n, size) ==
    {s \in [1..size -> 1..n] : \A i, j \in 1..size : i # j => s[i] # s[j]}

\* the image is opened, converted, resized and flattened (lines 63-86)
ExtractBegin ==
    /\ pc = "idle"
    /\ \E px \in PixelArrays, n \in (-1)..MaxNumColors :
          /\ pixels' = px
          /\ num_colors' = n
    /\ pc' = "import"
    /\ UNCHANGED <<gpVars, rsVars, sklearn, labels, sampled, colors, iters, path, err, result>>

\* from sklearn.cluster import KMeans (line 89, outside the try block)
ImportKMeans ==
    /\ pc = "import"
    /\ IF sklearn = "missing"
       THEN /\ err' = "ImportError"
            /\ pc' = "done"
       ELSE /\ err' = err
            /\ pc' = "try"
    /\ UNCHANGED <<gpVars, rsVars, sklearn, pixels, num_colors, labels, sampled, colors, iters, path, result>>

\* the try block (lines 93-95): KMeans(...).fit(pixels), cluster_centers_
FitKMeans ==
    /\ pc = "try"
    /\ sklearn = "installed"
    /\ IF num_colors < 1 \/ num_colors > Len(pixels)
       THEN \* the estimator rejects n_clusters
            /\ err' = "ValueError"
            /\ pc' = "done"
            /\ UNCHANGED <<labels, colors, path>>
       ELSE /\ \E lab \in Labelings(pixels, num_colors) :
                  /\ labels' = lab
                  /\ colors' = [k \in 1..num_colors |-> Centroid(pixels, lab, k)]
            /\ path' = "primary"
            /\ pc' = "convert"
            /\ err' = err
    /\ UNCHANGED <<gpVars, rsVars, sklearn, pixels, num_colors, sampled, iters, result>>

\* the try block raises ImportError; the handler draws the sample (lines 96-103)
FallbackSample ==
    /\ pc = "try"
    /\ sklearn = "broken"
    /\ \E indices \in Choices(Len(pixels), Min2(SampleSize, Len(pixels))) :
          sampled' = [i \in 1..Len(indices) |-> pixels[indices[i]]]
    /\ colors' = <<>>
    /\ iters' = 0
    /\ path' = "fallback"
    /\ pc' = "loop"
    /\ UNCHANGED <<gpVars, rsVars, sklearn, pixels, num_colors, labels, err, result>>

\* one iteration of for _ in range(num_colors) that does not break (lines 104-118)
FallbackIter ==
    /\ pc = "loop"
    /\ iters < num_colors
    /\ Len(sampled) # 0
    /\ \E closest_idx \in 1..Len(sampled) :
          /\ closest_idx = ArgMin(AvgDistances(sampled))
          /\ colors' = Append(colors, [c \in 1..3 |-> RInt(sampled[closest_idx][c])])
          /\ sampled' = Filter(sampled, SimilarMask(sampled, closest_idx))
    /\ iters' = iters + 1
    /\ UNCHANGED <<pc, gpVars, rsVars, sklearn, pixels, num_colors, labels, path, err, result>>

\* the loop ends (range exhausted or break); colors = np.array(colors) (line 120)
FallbackExit ==
    /\ pc = "loop"
    /\ (iters >= num_colors \/ Len(sampled) = 0)
    /\ pc' = "convert"
    /\ UNCHANGED <<gpVars, rsVars, exVars>>

\* return [Color(color) for color in colors] (line 123)
Convert ==
    /\ pc = "convert"
    /\ result' = [k \in 1..Len(colors) |-> Color__init__(colors[k])]
    /\ pc' = "done"
    /\ UNCHANGED <<gpVars, rsVars, sklearn, pixels, num_colors, labels, sampled, colors, iters, path, err>>

Next ==
    \/ ExtractBegin
    \/ ImportKMeans
    \/ FitKMeans
    \/ FallbackSample
    \/ FallbackIter
    \/ FallbackExit
    \/ Convert

Spec == Init /\ [][Next]_vars
\* extract_colors runs to completion once called
FairSpec == Spec /\ WF_vars(Next)

\* C3: with num_colors < 1 extract_colors raises ValueError and returns no
\* list, on the clustering path and on the fallback path (stated for the
\* environments in which the import of line 89 succeeds)
C3_RejectsNonPositive ==
    (pc = "done" /\ num_colors < 1 /\ sklearn # "missing") =>
        (err = "ValueError" /\ result = <<>>)

C9_FallbackIffUnavailable ==
    pc = "done" =>
        /\ sklearn = "missing" => (path = "fallback" /\ err = "none")
        /\ sklearn = "installed" => path # "fallback"

C10_Counts ==
    path = "fallback" =>
        /\ err = "none"
        /\ iters = Len(colors)
        /\ iters <= (IF num_colors < 0 THEN 0 ELSE num_colors)
        /\ pc = "done" =>
              /\ Len(result) = iters
              /\ Len(result) < num_colors => sampled = <<>>
              /\ (num_colors >= 1 /\ pixels # <<>>) => Len(result) >= 1

C10_Removes ==
    (pc = "loop" /\ pc' = "loop") =>
        /\ Len(sampled') < Len(sampled)
        /\ \A i \in 1..Len(sampled') :
              [c \in 1..3 |-> RInt(sampled'[i][c])] # colors'[Len(colors')]

\* C10: the fallback loop terminates without raising after at most
\* num_colors iterations; every iteration removes at least the chosen pixel;
\* the result has at most num_colors colours, fewer only when the sample
\* ran out, and at least one for a non-empty sample and num_colors >= 1
C10_FallbackTerminates ==
    /\ []C10_Counts
    /\ [][C10_Removes]_vars
    /\ (pc = "loop") ~> (pc = "done")

C10_Witness ==
    /\ pc = "done"
    /\ path = "fallback"
    /\ num_colors = 3
    /\ Len(pixels) = 3
    /\ Len(result) = 2
    /\ sampled = <<>>

====
